---- MODULE Spec2Model ----
(***************************************************************************)
(* The Validator filter of pkg/filters/validator/validator.go: its spec    *)
(* check (Spec.Validate), its lifecycle (Init, Inherit, reload, Close) and *)
(* its request path (Handle, handle), with the pipeline that owns the      *)
(* filter instances running lifecycle calls on one control thread and      *)
(* Handle calls on concurrent request threads.                             *)
(***************************************************************************)
EXTENDS Integers, Sequences, FiniteSets, TLC

\* ------------------------------------------------------------- bounds

\* Validator instances (generations) the pipeline creates.
MaxInst == 2
\* Close() calls the pipeline makes when it tears the filter down.
MaxCloseCalls == 2

\* Request threads running Handle concurrently.
Procs == {"t1", "t2"}

\* ---------------------------------------------------------- constants

\* http.StatusBadRequest and http.StatusUnauthorized.
StatusBadRequest == 400
StatusUnauthorized == 401

\* resultInvalid, and the empty result handle returns on success.
resultInvalid == "invalid"
resultPass == ""

\* The scheme sections of Spec in the order handle consults them. The
\* Validator field that holds the validator of section "signature" is
\* v.signer; the other fields carry the section's name.
SchemeOrder == <<"headers", "jwt", "signature", "oauth2", "basicAuth">>
SchemeNames == {SchemeOrder[i] : i \in 1..Len(SchemeOrder)}
NSchemes == Len(SchemeOrder)

\* A nil validator pointer; a validator object is named by the number of
\* the Init call (generation) that constructed it.
Nil == 0

Insts == 1..MaxInst

\* ------------------------------------------------------------- Spec

\* filters.BaseSpec values: the zero value and a named one.
ZeroBase == ""
BaseSpecs == {ZeroBase, "validator-1"}

\* Every Spec value: a BaseSpec and, per section, a nil or non-nil pointer.
AllSpecs == [base : BaseSpecs, sections : SUBSET SchemeNames]

\* Spec{}: the zero value of Spec.
SpecZero == [base |-> ZeroBase, sections |-> {}]

\* v.spec before Init has run (a nil *Spec).
NilSpec == [base |-> "<nil>", sections |-> {}]

NoError == "nil"
ErrNoneDefined == "none of the validations are defined"

\* func (spec Spec) Validate() error
Validate(spec) == IF spec = SpecZero THEN ErrNoneDefined ELSE NoError

\* The specs the pipeline configures filters from in the lifecycle model.
SpecChoices ==
    { [base |-> "validator-1", sections |-> SchemeNames],
      [base |-> "validator-1", sections |-> {"jwt", "basicAuth"}],
      [base |-> "validator-1", sections |-> {"signature", "oauth2"}] }

\* ---------------------------------------------------------- requests

\* A request is the set of schemes whose validator returns an error for it.
\* With SpecChoices, each of the five schemes is the first to reject one of
\* these requests under some spec.
Requests ==
    {{}, {"jwt", "signature"}, {"headers", "oauth2", "basicAuth"}}

VARIABLES
    created,     \* number of instances kind.CreateInstance has returned
    spec,        \* spec[v]: v.spec
    fields,      \* fields[v][s]: v.headers, v.jwt, v.signer, v.oauth2, v.basicAuth
    gen,         \* number of Init calls so far
    closeCalls,  \* closeCalls[g]: BasicAuthValidator.Close() calls on generation g's
    closeCount,  \* closeCount[v]: Validator.Close() calls on instance v
    state,       \* state[v]: lifecycle position of instance v
    prevOf,      \* prevOf[v]: previousGeneration of the Inherit that built v, or Nil
    live,        \* the instance the pipeline dispatches requests to, or Nil
    tornDown,    \* the pipeline has closed its filter for good
    ctl,         \* the lifecycle call in progress on the control thread
    ev,          \* ev[p]: the Handle call in progress on request thread p
    vcall        \* a Spec.Validate call: its argument and its result

vars == <<created, spec, fields, gen, closeCalls, closeCount, state, prevOf,
          live, tornDown, ctl, ev, vcall>>

NoFields == [s \in SchemeNames |-> Nil]

IdleCtl == [op |-> "idle", v |-> Nil, k |-> 0, g |-> 0, prev |-> Nil]

IdleEv == [pc |-> 0, v |-> Nil, req |-> {}, calls |-> <<>>, result |-> "none",
           status |-> 0, sets |-> 0, tags |-> <<>>, gate |-> "none",
           nextCalls |-> 0, nextArg |-> "none", nextRet |-> "none",
           ret |-> "none"]

NoVcall == [spec |-> SpecZero, err |-> "not called"]

\* pc of a Handle call whose handle has returned.
Returned == NSchemes + 1

Init ==
    /\ created = 0
    /\ spec = [v \in Insts |-> NilSpec]
    /\ fields = [v \in Insts |-> NoFields]
    /\ gen = 0
    /\ closeCalls = [g \in Insts |-> 0]
    /\ closeCount = [v \in Insts |-> 0]
    /\ state = [v \in Insts |-> "none"]
    /\ prevOf = [v \in Insts |-> Nil]
    /\ live = Nil
    /\ tornDown = FALSE
    /\ ctl = IdleCtl
    /\ ev = [p \in Procs |-> IdleEv]
    /\ vcall = NoVcall

\* ------------------------------------------------------------ lifecycle

\* CreateInstance of the filter kind: a Validator with every field nil. The
\* pipeline creates the next instance only when the previous one was used.
CreateInstance ==
    /\ ctl.op = "idle"
    /\ ~tornDown
    /\ created < MaxInst
    /\ \A v \in 1..created : state[v] # "unconfigured"
    /\ created' = created + 1
    /\ state' = [state EXCEPT ![created + 1] = "unconfigured"]
    /\ UNCHANGED <<spec, fields, gen, closeCalls, closeCount, prevOf, live,
                   tornDown, ctl, ev, vcall>>

\* CloseBasicAuth with the basicAuth validator left open.
CloseBasicAuthSkipped(v) == closeCalls

\* func (v *Validator) Close(): the BasicAuthValidator.Close() calls after it.
CloseBasicAuth(v) ==
    IF fields[v]["basicAuth"] # Nil
    THEN [closeCalls EXCEPT ![fields[v]["basicAuth"]] = @ + 1]
    ELSE closeCalls

\* func (v *Validator) Init(spec): v.spec = spec, then v.reload() starts.
InitCall(v, sp) ==
    /\ ctl.op = "idle"
    /\ ~tornDown
    /\ live = Nil
    /\ v \in 1..created
    /\ state[v] = "unconfigured"
    /\ spec' = [spec EXCEPT ![v] = sp]
    /\ gen' = gen + 1
    /\ state' = [state EXCEPT ![v] = "configuring"]
    /\ ctl' = [op |-> "Init", v |-> v, k |-> 1, g |-> gen + 1, prev |-> Nil]
    /\ UNCHANGED <<created, fields, closeCalls, closeCount, prevOf, live,
                   tornDown, ev, vcall>>

\* func (v *Validator) Inherit(spec, previousGeneration):
\* previousGeneration.Close(), then v.Init(spec) starts.
InheritCall(v, sp, prev) ==
    /\ ctl.op = "idle"
    /\ ~tornDown
    /\ prev # Nil
    /\ prev = live
    /\ v \in 1..created
    /\ state[v] = "unconfigured"
    /\ closeCalls' = CloseBasicAuth(prev)
    /\ closeCount' = [closeCount EXCEPT ![prev] = @ + 1]
    /\ spec' = [spec EXCEPT ![v] = sp]
    /\ gen' = gen + 1
    /\ state' = [state EXCEPT ![v] = "configuring", ![prev] = "closed"]
    /\ prevOf' = [prevOf EXCEPT ![v] = prev]
    /\ ctl' = [op |-> "Inherit", v |-> v, k |-> 1, g |-> gen + 1, prev |-> prev]
    /\ UNCHANGED <<created, fields, live, tornDown, ev, vcall>>

\* The constructors reload calls (httpheader.NewValidator, NewJWTValidator,
\* signer.CreateFromSpec, NewOAuth2Validator, NewBasicAuthValidator): each
\* returns a validator or fails on a malformed section.
NewValidator(sp, s) == {"ok", "panic"}

\* OnConstructorPanic with the panic recovered and reload carrying on.
OnConstructorPanicRecovered(c) == [c EXCEPT !.k = @ + 1]

\* A constructor panics inside reload: reload and Init recover nothing, the
\* lifecycle call c ends there.
OnConstructorPanic(c) == [c EXCEPT !.op = "panicked"]

\* One `if v.spec.X != nil { v.x = NewX(v.spec.X) }` of reload.
ReloadStep ==
    /\ ctl.op \in {"Init", "Inherit"}
    /\ ctl.k \in 1..NSchemes
    /\ LET v == ctl.v
           s == SchemeOrder[ctl.k]
       IN  IF s \in spec[v].sections
           THEN \E out \in NewValidator(spec[v], s) :
                    IF out = "ok"
                    THEN /\ fields' = [fields EXCEPT ![v][s] = ctl.g]
                         /\ ctl' = [ctl EXCEPT !.k = @ + 1]
                         /\ state' = state
                    ELSE /\ fields' = fields
                         /\ ctl' = OnConstructorPanic(ctl)
                         /\ state' = IF ctl'.op = "panicked"
                                     THEN [state EXCEPT ![v] = "failed"]
                                     ELSE state
           ELSE /\ fields' = fields
                /\ ctl' = [ctl EXCEPT !.k = @ + 1]
                /\ state' = state
    /\ UNCHANGED <<created, spec, gen, closeCalls, closeCount, prevOf, live,
                   tornDown, ev, vcall>>

\* Init (or Inherit) returns and the pipeline starts dispatching to v.
Publish ==
    /\ ctl.op \in {"Init", "Inherit"}
    /\ ctl.k = NSchemes + 1
    /\ live' = ctl.v
    /\ state' = [state EXCEPT ![ctl.v] = "live"]
    /\ ctl' = IdleCtl
    /\ UNCHANGED <<created, spec, fields, gen, closeCalls, closeCount, prevOf,
                   tornDown, ev, vcall>>

\* func (v *Validator) Close(), called by the pipeline on its filter.
CloseCall ==
    /\ ctl.op = "idle"
    /\ live # Nil
    /\ closeCount[live] < MaxCloseCalls
    /\ closeCalls' = CloseBasicAuth(live)
    /\ closeCount' = [closeCount EXCEPT ![live] = @ + 1]
    /\ state' = [state EXCEPT ![live] = "closed"]
    /\ tornDown' = TRUE
    /\ UNCHANGED <<created, spec, fields, gen, prevOf, live, ctl, ev, vcall>>

\* ---------------------------------------------------------- request path

\* A validator's error: the empty text is a nil error.
NilErr == <<>>

\* X.Validate(req) / signer.Verify(req) of the validator object obj of scheme s.
ValidatorValidate(s, obj, req) == IF s \in req THEN <<"bad", s>> ELSE NilErr

\* StatusOf with the header scheme's status used for every scheme.
StatusOfOneClass(s) == StatusBadRequest

\* The status handle passes to prepareErrorResponse for scheme s.
StatusOf(s) == IF s = "headers" THEN StatusBadRequest ELSE StatusUnauthorized

\* TagPrefix with the oauth2 branch carrying the JWT branch's prefix.
TagPrefixCopied(s) ==
    CASE s = "headers"   -> <<"header", "validator:">>
      [] s = "jwt"       -> <<"JWT", "validator:">>
      [] s = "signature" -> <<"signature", "validator:">>
      [] s = "oauth2"    -> <<"JWT", "validator:">>
      [] s = "basicAuth" -> <<"http", "basic", "validator:">>

\* The tagPrefix handle passes to prepareErrorResponse for scheme s.
TagPrefix(s) ==
    CASE s = "headers"   -> <<"header", "validator:">>
      [] s = "jwt"       -> <<"JWT", "validator:">>
      [] s = "signature" -> <<"signature", "validator:">>
      [] s = "oauth2"    -> <<"oauth2", "validator:">>
      [] s = "basicAuth" -> <<"http", "basic", "validator:">>

\* stringtool.Cat
Cat(a, b) == a \o b

\* prepareErrorResponse with the tag added before and after the status is set.
PrepareErrorResponseTwice(e, status, tagPrefix, err) ==
    [e EXCEPT !.status = status,
              !.sets = @ + 1,
              !.tags = Append(Append(@, Cat(tagPrefix, err)), Cat(tagPrefix, err))]

\* prepareErrorResponse in handle: ctx.Response().SetStatusCode(status) and
\* ctx.AddTag(Cat(tagPrefix, err.Error())) on the context e of the call.
PrepareErrorResponse(e, status, tagPrefix, err) ==
    [e EXCEPT !.status = status,
              !.sets = @ + 1,
              !.tags = Append(@, Cat(tagPrefix, err))]

\* RequestOf with the request kept in one slot that the running calls share.
RequestOfShared(p) == ev[CHOOSE q \in Procs : ev[q].pc >= 1].req

\* req := ctx.Request(): the request of the call's own context.
RequestOf(p) == ev[p].req

\* Receiver as the pipeline's current filter, read anew at every field access.
ReceiverCurrent(p) == live

\* The receiver v whose fields a running handle reads.
Receiver(p) == ev[p].v

\* Rejects with the oauth2 validator's error dropped.
RejectsButOAuth2(s, err) == err # NilErr /\ s # "oauth2"

\* `err != nil` in handle.
Rejects(s, err) == err # NilErr

\* NextPc without the early return.
NextPcNoReturn(k, rejected) == k + 1

\* Where handle goes after scheme k: it returns on a rejection.
NextPc(k, rejected) == IF rejected THEN NSchemes + 1 ELSE k + 1

\* Handle is called on instance v with request req: handle starts.
StartHandle(p, v, req) ==
    /\ ev[p].pc = 0
    /\ ev' = [ev EXCEPT ![p] = [IdleEv EXCEPT !.pc = 1, !.v = v, !.req = req,
                                              !.gate = state[v]]]
    /\ UNCHANGED <<created, spec, fields, gen, closeCalls, closeCount, state,
                   prevOf, live, tornDown, ctl, vcall>>

\* The pipeline dispatches a request to its filter.
HandleCall(p, req) ==
    /\ live # Nil
    /\ ~tornDown
    /\ StartHandle(p, live, req)

\* One `if v.x != nil { if err := v.x.Validate(req); err != nil {...} }` of
\* handle, and the final `return ""` after the last one.
HandleStep(p) ==
    /\ ev[p].pc \in 1..NSchemes
    /\ LET e == ev[p]
           k == e.pc
           s == SchemeOrder[k]
           f == fields[Receiver(p)][s]
           err == ValidatorValidate(s, f, RequestOf(p))
           rejected == f # Nil /\ Rejects(s, err)
           calls2 == IF f # Nil
                     THEN Append(e.calls, [scheme |-> s, obj |-> f])
                     ELSE e.calls
           pc2 == NextPc(k, rejected)
       IN  ev' = [ev EXCEPT ![p] =
                 IF rejected
                 THEN [PrepareErrorResponse(e, StatusOf(s), TagPrefix(s), err)
                          EXCEPT !.pc = pc2, !.calls = calls2,
                                 !.result = IF pc2 = Returned THEN resultInvalid
                                            ELSE e.result]
                 ELSE [e EXCEPT !.pc = pc2, !.calls = calls2,
                                !.result = IF pc2 = Returned /\ e.result = "none"
                                           THEN resultPass ELSE e.result]]
    /\ UNCHANGED <<created, spec, fields, gen, closeCalls, closeCount, state,
                   prevOf, live, tornDown, ctl, vcall>>

\* What the next handler of the pipeline may return to CallNextHandler.
NextHandlerResults == {"", "upstreamFailed"}

\* The argument Handle passes to ctx.CallNextHandler.
NextHandlerArg(result) == result

\* HandleResult with handle's own result returned.
HandleResultOwn(result, r) == result

\* What Handle returns, r being what ctx.CallNextHandler returned.
HandleResult(result, r) == r

\* Handle: ctx.CallNextHandler(result) and return. The thread keeps what was
\* passed and returned until its next call.
HandleReturn(p) ==
    /\ ev[p].pc = Returned
    /\ \E r \in NextHandlerResults :
           ev' = [ev EXCEPT ![p] =
                     [IdleEv EXCEPT !.nextCalls = ev[p].nextCalls + 1,
                                    !.nextArg = NextHandlerArg(ev[p].result),
                                    !.nextRet = r,
                                    !.ret = HandleResult(ev[p].result, r)]]
    /\ UNCHANGED <<created, spec, fields, gen, closeCalls, closeCount, state,
                   prevOf, live, tornDown, ctl, vcall>>

Next ==
    \/ CreateInstance
    \/ \E v \in Insts, sp \in SpecChoices : InitCall(v, sp)
    \/ \E v \in Insts, sp \in SpecChoices, prev \in Insts : InheritCall(v, sp, prev)
    \/ ReloadStep
    \/ Publish
    \/ CloseCall
    \/ \E p \in Procs, req \in Requests : HandleCall(p, req)
    \/ \E p \in Procs : HandleStep(p)
    \/ \E p \in Procs : HandleReturn(p)

Spec == Init /\ [][Next]_vars

\* -------------------------------------------- direct use of the filter

\* Handle called on any instance CreateInstance returned, whatever the
\* lifecycle calls made on it so far.
HandleDirect(p, v, req) ==
    /\ v \in 1..created
    /\ StartHandle(p, v, req)

\* The thread that calls Handle directly.
DirectProcs == {"t1"}

NextDirect ==
    \/ CreateInstance
    \/ \E v \in Insts, sp \in SpecChoices : InitCall(v, sp)
    \/ \E v \in Insts, sp \in SpecChoices, prev \in Insts : InheritCall(v, sp, prev)
    \/ ReloadStep
    \/ Publish
    \/ CloseCall
    \/ \E p \in DirectProcs, v \in Insts, req \in Requests : HandleDirect(p, v, req)
    \/ \E p \in Procs : HandleStep(p)
    \/ \E p \in Procs : HandleReturn(p)

SpecDirect == Init /\ [][NextDirect]_vars

\* ------------------------------------------------------- Spec.Validate

InitValidate ==
    /\ created = 0
    /\ spec = [v \in Insts |-> NilSpec]
    /\ fields = [v \in Insts |-> NoFields]
    /\ gen = 0
    /\ closeCalls = [g \in Insts |-> 0]
    /\ closeCount = [v \in Insts |-> 0]
    /\ state = [v \in Insts |-> "none"]
    /\ prevOf = [v \in Insts |-> Nil]
    /\ live = Nil
    /\ tornDown = FALSE
    /\ ctl = IdleCtl
    /\ ev = [p \in Procs |-> IdleEv]
    /\ vcall \in {[spec |-> sp, err |-> "not called"] : sp \in AllSpecs}

\* spec.Validate() is called on the spec a filter is to be configured from.
ValidateCall ==
    /\ vcall.err = "not called"
    /\ vcall' = [vcall EXCEPT !.err = Validate(vcall.spec)]
    /\ UNCHANGED <<created, spec, fields, gen, closeCalls, closeCount, state,
                   prevOf, live, tornDown, ctl, ev>>

NextValidate == ValidateCall

SpecValidate == InitValidate /\ [][NextValidate]_vars

\* ------------------------------------------------------------- claims

\* The schemes of instance v whose validator field is non-nil, in handle's order.
EnabledSeq(v) == SelectSeq(SchemeOrder, LAMBDA s : fields[v][s] # Nil)

\* The sections of v's spec, in handle's order.
SectionSeq(v) == SelectSeq(SchemeOrder, LAMBDA s : s \in spec[v].sections)

CallSchemes(p) == [i \in 1..Len(ev[p].calls) |-> ev[p].calls[i].scheme]

Running(p) == ev[p].pc \in 1..NSchemes

\* C1: during a handle call the validators invoked so far are a prefix of the
\* enabled schemes in the order headers, jwt, signature, oauth2, basicAuth;
\* every invoked scheme but the last accepted the request, and a call that
\* was rejected has returned with the rejecting scheme as its last invocation.
C1_InvocationsArePrefixAndShortCircuit ==
    \A p \in Procs :
        ev[p].pc >= 1 =>
            LET e == ev[p]
                n == Len(e.calls)
                en == EnabledSeq(e.v)
            IN  /\ n <= Len(en)
                /\ CallSchemes(p) = SubSeq(en, 1, n)
                /\ \A i \in 1..n : i < n => e.calls[i].scheme \notin e.req
                /\ (n > 0 /\ e.calls[n].scheme \in e.req)
                       => (e.pc = Returned /\ e.result = resultInvalid)

\* A call was rejected by its second validator with further validators
\* enabled and never invoked.
C1_Witness ==
    \E p \in Procs :
        /\ ev[p].pc = Returned
        /\ ev[p].result = resultInvalid
        /\ Len(ev[p].calls) >= 2
        /\ Len(ev[p].calls) < Len(EnabledSeq(ev[p].v))

\* C2: Spec.Validate returns an error exactly for the specs with no scheme
\* section, whatever their base fields hold.
C2_ValidateRejectsExactlySchemeless ==
    vcall.err # "not called" =>
        (vcall.err # NoError <=> vcall.spec.sections = {})

\* C3: no Handle call that started on a live instance is still running while
\* that instance's BasicAuth validator has been closed by an Inherit.
C3_NoReleaseWhileHandleRunning ==
    \A p \in Procs :
        (Running(p) /\ ev[p].gate = "live") =>
            LET v == ev[p].v
                b == fields[v]["basicAuth"]
            IN  ~(/\ \E w \in Insts : prevOf[w] = v
                  /\ b # Nil
                  /\ closeCalls[b] > 0)

\* C4: while an Inherit is running, the previous generation's BasicAuth
\* validator has been closed only if every validator of the new generation
\* has been constructed.
C4_ReleaseAfterConstruction ==
    (/\ ctl.op = "Inherit"
     /\ fields[ctl.prev]["basicAuth"] # Nil
     /\ closeCalls[fields[ctl.prev]["basicAuth"]] > 0)
        => \A s \in spec[ctl.v].sections : fields[ctl.v][s] # Nil

\* C5: when the construction started by an Inherit has failed, the previous
\* generation is still the live one and its BasicAuth validator has not been
\* closed.
C5_FailedInheritLeavesPrevious ==
    \A v \in Insts :
        (state[v] = "failed" /\ prevOf[v] # Nil) =>
            /\ live = prevOf[v]
            /\ fields[prevOf[v]]["basicAuth"] # Nil
                   => closeCalls[fields[prevOf[v]]["basicAuth"]] = 0

\* C6: every Handle call invokes validators of one generation only, on an
\* instance whose construction had finished when the call started, and the
\* validators it has consulted are those of all sections of that instance's
\* spec up to its position.
C6_OneGenerationPerCall ==
    \A p \in Procs :
        ev[p].pc >= 1 =>
            LET e == ev[p]
                n == Len(e.calls)
            IN  /\ e.gate \in {"live", "closed"}
                /\ \A i, j \in 1..n : e.calls[i].obj = e.calls[j].obj
                /\ \A i \in 1..n : e.calls[i].obj = fields[e.v][e.calls[i].scheme]
                /\ n <= Len(SectionSeq(e.v))
                /\ CallSchemes(p) = SubSeq(SectionSeq(e.v), 1, n)
                /\ e.result = resultPass => n = Len(SectionSeq(e.v))

\* A Handle call with two validators invoked is running on the previous
\* generation after an Inherit has installed the next one.
C6_Witness ==
    \E p \in Procs :
        /\ Running(p)
        /\ Len(ev[p].calls) >= 2
        /\ live # Nil
        /\ ev[p].v # live
        /\ state[live] = "live"
        /\ prevOf[live] = ev[p].v

\* C7: handle returns the empty result exactly when no enabled validator
\* returns an error for the request; an error from an invoked validator
\* gives 'invalid'.
C7_PassIffAllAccept ==
    \A p \in Procs :
        ev[p].pc = Returned =>
            LET e == ev[p] IN
            /\ e.result \in {resultPass, resultInvalid}
            /\ e.result = resultPass
                   <=> \A s \in SchemeNames : fields[e.v][s] # Nil => s \notin e.req
            /\ (\E i \in 1..Len(e.calls) : e.calls[i].scheme \in e.req)
                   => e.result = resultInvalid

\* One call has passed two validators and returned the empty result while
\* another has returned 'invalid'.
C7_Witness ==
    \E p, q \in Procs :
        /\ ev[p].pc = Returned /\ ev[p].result = resultPass
        /\ Len(ev[p].calls) >= 2
        /\ ev[q].pc = Returned /\ ev[q].result = resultInvalid

\* C8: the status set on the response is 400 when the headers validator
\* rejected and 401 when any other validator rejected, and is set only for
\* a rejected request.
C8_StatusByRejectingScheme ==
    \A p \in Procs :
        LET e == ev[p]
            n == Len(e.calls)
        IN  /\ e.status \in {0, 400, 401}
            /\ e.status # 0 <=> e.result = resultInvalid
            /\ e.result = resultInvalid =>
                   /\ n > 0
                   /\ e.calls[n].scheme = "headers" => e.status = 400
                   /\ e.calls[n].scheme # "headers" => e.status = 401

\* One call was rejected by the headers validator and another by a later one.
C8_Witness ==
    \E p, q \in Procs :
        /\ ev[p].pc = Returned /\ ev[p].status = 400
        /\ ev[q].pc = Returned /\ ev[q].status = 401
        /\ ev[q].calls[Len(ev[q].calls)].scheme \in {"signature", "oauth2", "basicAuth"}

\* C9: however often Close is called on an instance, its BasicAuth validator
\* is closed at most once.
C9_SecondCloseReleasesNothing ==
    \A v \in Insts :
        fields[v]["basicAuth"] # Nil => closeCalls[fields[v]["basicAuth"]] <= 1

\* C10: a Handle call returns a result only if the instance was live when
\* the call was made.
C10_ResultOnlyWhenLive ==
    \A p \in Procs : ev[p].pc = Returned => ev[p].gate = "live"

\* The name a tag gives each scheme.
SchemeLabel ==
    [s \in SchemeNames |->
        CASE s = "headers"   -> <<"header">>
          [] s = "jwt"       -> <<"JWT">>
          [] s = "signature" -> <<"signature">>
          [] s = "oauth2"    -> <<"oauth2">>
          [] s = "basicAuth" -> <<"http", "basic">>]

\* Whether text a starts text b.
IsPrefix(a, b) == Len(a) <= Len(b) /\ SubSeq(b, 1, Len(a)) = a

\* C11: the tag of a rejected request is the rejecting scheme's name, then
\* "validator:", then the error text of the rejecting validator, and it
\* starts with no other scheme's name and "validator:".
C11_TagNamesRejectingScheme ==
    \A p \in Procs :
        ev[p].result = resultInvalid =>
            LET e == ev[p]
                n == Len(e.calls)
                s == e.calls[n].scheme
                err == ValidatorValidate(s, e.calls[n].obj, e.req)
            IN  /\ Len(e.tags) = 1
                /\ e.tags[1] = SchemeLabel[s] \o <<"validator:">> \o err
                /\ \A o \in SchemeNames \ {s} :
                       ~IsPrefix(SchemeLabel[o] \o <<"validator:">>, e.tags[1])

\* One request was rejected by the oauth2 validator and another by the
\* basicAuth validator.
C11_Witness ==
    \E p, q \in Procs :
        /\ ev[p].result = resultInvalid
        /\ ev[p].calls[Len(ev[p].calls)].scheme = "oauth2"
        /\ ev[q].result = resultInvalid
        /\ ev[q].calls[Len(ev[q].calls)].scheme = "basicAuth"

\* C12: an instance the pipeline dispatches to holds a validator for every
\* section of its spec, and an instance whose construction failed is never
\* dispatched to: the lifecycle call ended at the failure.
C12_NoPartialConfigurationLive ==
    \A v \in Insts :
        /\ (live = v /\ state[v] \in {"live", "closed"}) =>
               \A s \in spec[v].sections : fields[v][s] # Nil
        /\ state[v] = "failed" =>
               /\ live # v
               /\ ctl.op = "panicked"
               /\ ctl.v = v

\* An Init failed after it had constructed one validator and before it had
\* constructed another.
C12_Witness ==
    \E v \in Insts :
        /\ state[v] = "failed"
        /\ prevOf[v] = Nil
        /\ \E s \in spec[v].sections : fields[v][s] # Nil
        /\ \E s \in spec[v].sections : fields[v][s] = Nil

\* C13: once the pipeline has called Close once on its filter, after an Init
\* and any number of Inherits on fresh instances, every BasicAuth validator
\* that was constructed has been closed exactly once, and nothing else has.
C13_EveryBasicAuthClosedOnce ==
    (tornDown /\ closeCount[live] = 1) =>
        \A g \in Insts :
            IF \E v \in Insts : fields[v]["basicAuth"] = g
            THEN closeCalls[g] = 1
            ELSE closeCalls[g] = 0

\* The filter was closed after an Inherit, and both generations held a
\* BasicAuth validator.
C13_Witness ==
    /\ tornDown
    /\ closeCount[live] = 1
    /\ prevOf[live] # Nil
    /\ fields[live]["basicAuth"] # Nil
    /\ fields[prevOf[live]]["basicAuth"] # Nil

\* ------------------------------------------------- reuse of an instance

\* Init called again on the instance the pipeline dispatches to: v.spec is
\* replaced and reload runs over the fields the earlier Init left.
ReInitCall(v, sp) ==
    /\ ctl.op = "idle"
    /\ ~tornDown
    /\ v = live
    /\ state[v] = "live"
    /\ gen < MaxInst
    /\ spec' = [spec EXCEPT ![v] = sp]
    /\ gen' = gen + 1
    /\ state' = [state EXCEPT ![v] = "configuring"]
    /\ ctl' = [op |-> "Init", v |-> v, k |-> 1, g |-> gen + 1, prev |-> Nil]
    /\ UNCHANGED <<created, fields, closeCalls, closeCount, prevOf, live,
                   tornDown, ev, vcall>>

NextReuse ==
    \/ CreateInstance
    \/ \E v \in Insts, sp \in SpecChoices : InitCall(v, sp)
    \/ \E v \in Insts, sp \in SpecChoices : ReInitCall(v, sp)
    \/ ReloadStep
    \/ Publish
    \/ \E p \in DirectProcs, req \in Requests : HandleCall(p, req)
    \/ \E p \in Procs : HandleStep(p)
    \/ \E p \in Procs : HandleReturn(p)

SpecReuse == Init /\ [][NextReuse]_vars

\* C14: an instance whose latest Init or Inherit has returned holds a
\* validator for exactly the sections of the spec that call was given.
C14_ValidatorsMatchLatestSpec ==
    \A v \in Insts :
        state[v] = "live" =>
            {s \in SchemeNames : fields[v][s] # Nil} = spec[v].sections

\* C15: a step of handle leaves the instances' specs and validator fields
\* as they were; a call that returns the empty result has set no status and
\* added no tag, and a call that returns 'invalid' has set the status once
\* and added one tag.
C15_HandleFrame ==
    [][\A p \in Procs :
          (Running(p) /\ ev'[p] # ev[p]) =>
              /\ spec' = spec
              /\ fields' = fields
              /\ ev'[p].pc = Returned =>
                     IF ev'[p].result = resultPass
                     THEN /\ ev'[p].sets = 0
                          /\ ev'[p].status = 0
                          /\ ev'[p].tags = <<>>
                     ELSE /\ ev'[p].sets = 1
                          /\ ev'[p].status # 0
                          /\ Len(ev'[p].tags) = 1]_vars

\* One call has returned the empty result after invoking a validator and
\* another has returned 'invalid' with its status set.
C15_Witness ==
    \E p, q \in Procs :
        /\ ev[p].pc = Returned /\ ev[p].result = resultPass
        /\ Len(ev[p].calls) >= 1 /\ ev[p].sets = 0
        /\ ev[q].pc = Returned /\ ev[q].result = resultInvalid
        /\ ev[q].sets = 1 /\ Len(ev[q].tags) = 1

\* The outcome of handle run alone on instance v with request req, from
\* scheme k on: the first enabled scheme whose validator errs decides it.
RECURSIVE AloneFrom(_, _, _)
AloneFrom(v, req, k) ==
    IF k > NSchemes
    THEN [result |-> resultPass, status |-> 0, tags |-> <<>>]
    ELSE LET s == SchemeOrder[k]
             err == ValidatorValidate(s, fields[v][s], req)
         IN  IF fields[v][s] # Nil /\ err # NilErr
             THEN [result |-> resultInvalid,
                   status |-> IF s = "headers" THEN 400 ELSE 401,
                   tags |-> <<SchemeLabel[s] \o <<"validator:">> \o err>>]
             ELSE AloneFrom(v, req, k + 1)

\* C16: whatever other calls ran beside it, a call that has returned has the
\* result, status and tag that handle run alone gives for its own request
\* and its instance's validators.
C16_OutcomeAsIfAlone ==
    \A p \in Procs :
        ev[p].pc = Returned =>
            [result |-> ev[p].result, status |-> ev[p].status, tags |-> ev[p].tags]
                = AloneFrom(ev[p].v, ev[p].req, 1)

\* Two calls with different requests have both returned on the live
\* instance, one accepted and one rejected.
C16_Witness ==
    \E p, q \in Procs :
        /\ p # q
        /\ ev[p].pc = Returned /\ ev[q].pc = Returned
        /\ ev[p].v = live /\ ev[q].v = live
        /\ state[live] = "live"
        /\ ev[p].req # ev[q].req
        /\ ev[p].result = resultPass
        /\ ev[q].result = resultInvalid

\* C17: the next handler is not called while handle runs; when Handle
\* returns it has called the next handler once, with handle's result, and
\* returns what that call returned, whether handle accepted or rejected.
C17_ForwardsOnceAfterValidation ==
    [][\A p \in Procs :
          /\ ev'[p].pc >= 1 => ev'[p].nextCalls = 0
          /\ (ev[p].pc = Returned /\ ev'[p].pc = 0) =>
                 /\ ev[p].result \in {resultPass, resultInvalid}
                 /\ ev'[p].nextCalls = 1
                 /\ ev'[p].nextArg = ev[p].result
                 /\ ev'[p].ret = ev'[p].nextRet]_vars

\* One Handle call has returned after passing 'invalid' on and another after
\* passing the empty result on, and one of them returned a result other
\* than the one it passed.
C17_Witness ==
    \E p, q \in Procs :
        /\ ev[p].pc = 0 /\ ev[p].nextCalls = 1 /\ ev[p].nextArg = resultInvalid
        /\ ev[q].pc = 0 /\ ev[q].nextCalls = 1 /\ ev[q].nextArg = resultPass
        /\ ev[p].ret # ev[p].nextArg

====
